---- MODULE Spec2Model ----
(***************************************************************************)
(* A model of py-lambda-calculus: the lexer (lc/lexer.py), the parser      *)
(* (lc/parser.py), the reducer (lc/structure.py) and the statement driver  *)
(* (lc/execute.py).                                                        *)
(*                                                                         *)
(* Expressions are records tagged with their class name.  A node keeps of  *)
(* its token only what the reducer reads: the token's source (a Variable's *)
(* or Argument's name, an operator's symbol).  Line and column are used in *)
(* error messages alone and are kept on lexer tokens only.                 *)
(*                                                                         *)
(* A Python exception is an outcome [exc |-> <class name>]; a returned     *)
(* value is [exc |-> "none", val |-> <expression>].  Python bounds the     *)
(* depth of the call stack (sys.getrecursionlimit()); an evaluation that   *)
(* needs more than MaxRecursion nested evaluate frames raises              *)
(* RecursionError.                                                         *)
(***************************************************************************)
EXTENDS Integers, Sequences, FiniteSets, TLC

VARIABLES
    source,        \* lex: the source text
    pos,           \* lex: index of the next character (0-based)
    col,           \* lex: column counter
    line_number,   \* lex: line counter
    tokens,        \* lex: tokens of the statement being scanned
    statements,    \* lex: the token lists of the statements scanned so far
    parens,        \* lex: stack of expected closing brackets
    in_comment,    \* lex: inside a # comment
    parser,        \* the ParseContext: [tokens, pos, args, multi_args]
    ctx,           \* the EvalContext: [bound, eval_ops, eval_step, force_eval]
    output_raw,    \* execute's output_raw parameter
    nparsed,       \* execute: statements consumed by the parse generator
    expressions,   \* execute: the parsed non-binding statements
    k,             \* execute: index of the expression being evaluated
    expression,    \* execute: the loop variable `expression`
    output,        \* what execute has printed, one entry per printed line
    pc,            \* position in execute
    error          \* the exception that ended the run, or "none"

lexvars == <<source, pos, col, line_number, tokens, statements, parens, in_comment>>
execvars == <<parser, ctx, output_raw, nparsed, expressions, k, expression, output>>
vars == <<lexvars, execvars, pc, error>>

(***************************************************************************)
(* Bounds of the model.                                                    *)
(***************************************************************************)
MaxRecursion == 7   \* depth of nested evaluate frames before RecursionError
MaxOutput == 6      \* printed entries after which the print loop is cut off
MaxSize == 3        \* nodes of an enumerated input expression
MaxStatements == 3  \* statements of an enumerated program
MaxLen == 4         \* characters of an enumerated source text
MaxInt == 7         \* enumerated Integer operands range over -MaxInt..MaxInt

Names == {"x", "y"}

(***************************************************************************)
(* lc/structure.py: the expression classes.                                *)
(***************************************************************************)
None == [tag |-> "None"]

Integer(value) == [tag |-> "Integer", value |-> value]
Variable(name) == [tag |-> "Variable", name |-> name]
Argument(name) == [tag |-> "Argument", name |-> name]
List(exprs) == [tag |-> "List", expressions |-> exprs]
UnaryOperation(op, argument) ==
    [tag |-> "UnaryOperation", op |-> op, argument |-> argument]
BinaryOperation(op, lhs, rhs) ==
    [tag |-> "BinaryOperation", lhs |-> lhs, op |-> op, rhs |-> rhs]
Function(argument, body) ==
    [tag |-> "Function", argument |-> argument, body |-> body]
Application(target, value) ==
    [tag |-> "Application", target |-> target, value |-> value]

EvalContext == [bound |-> <<>>, eval_ops |-> TRUE, eval_step |-> FALSE, force_eval |-> TRUE]

Ret(e) == [exc |-> "none", val |-> e]
Raise(x) == [exc |-> x, val |-> None]

isinstance(e, class) == e.tag = class

RECURSIVE is_atomic(_, _)
RECURSIVE substitute(_, _, _)
RECURSIVE evaluate(_, _, _)

(***************************************************************************)
(* is_atomic, class by class.                                              *)
(***************************************************************************)
Variable_is_atomic(self, c) == ~(self.name \in DOMAIN c.bound)

List_is_atomic(self, c) ==
    \A i \in 1..Len(self.expressions) : is_atomic(self.expressions[i], c)

\* UnaryOperation.table: '-' on an Integer.
UnaryOperation_table_has(op, arg) ==
    op = "-" /\ isinstance(arg, "Integer")

UnaryOperation_table(op, arg) == Ret(Integer((-1) * arg.value))

UnaryOperation_is_atomic(self, c) ==
    IF ~is_atomic(self.argument, c) THEN FALSE
    ELSE ~UnaryOperation_table_has(self.op, self.argument)

\* Division truncating toward zero, as C's / does.
TruncDiv(a, b) ==
    LET abs(n) == IF n < 0 THEN 0 - n ELSE n
        q == abs(a) \div abs(b)
    IN IF (a >= 0) = (b > 0) THEN q ELSE 0 - q

\* Python's // on int: the floor of the quotient.
FloorDiv(a, b) ==
    IF b > 0 THEN a \div b ELSE (0 - a) \div (0 - b)

\* BinaryOperation.table: '+', '-', '*', '/' on (Integer, Integer).
BinaryOperation_table_has(op, a, b) ==
    /\ op \in {"+", "-", "*", "/"}
    /\ isinstance(a, "Integer")
    /\ isinstance(b, "Integer")

BinaryOperation_table(op, a, b) ==
    CASE op = "+" -> Ret(Integer(a.value + b.value))
      [] op = "-" -> Ret(Integer(a.value - b.value))
      [] op = "*" -> Ret(Integer(a.value * b.value))
      [] op = "/" -> IF b.value = 0 THEN Raise("ZeroDivisionError")
                     ELSE Ret(Integer(FloorDiv(a.value, b.value)))

BinaryOperation_is_atomic(self, c) ==
    IF ~is_atomic(self.lhs, c) \/ ~is_atomic(self.rhs, c) THEN FALSE
    ELSE ~BinaryOperation_table_has(self.op, self.lhs, self.rhs)

Application_is_atomic(self, c) ==
    IF ~is_atomic(self.target, c) \/ ~is_atomic(self.value, c) THEN FALSE
    ELSE ~isinstance(self.target, "Function")

is_atomic(e, c) ==
    CASE e.tag = "Integer" -> TRUE
      [] e.tag = "Argument" -> TRUE
      [] e.tag = "Function" -> TRUE
      [] e.tag = "Variable" -> Variable_is_atomic(e, c)
      [] e.tag = "List" -> List_is_atomic(e, c)
      [] e.tag = "UnaryOperation" -> UnaryOperation_is_atomic(e, c)
      [] e.tag = "BinaryOperation" -> BinaryOperation_is_atomic(e, c)
      [] e.tag = "Application" -> Application_is_atomic(e, c)

(***************************************************************************)
(* substitute, class by class.  Expression.substitute returns self, and    *)
(* Integer, Variable and List do not override it.                          *)
(***************************************************************************)
\* Argument.substitute with the comparison inverted.
Argument_substitute_inverted(self, old, new) ==
    IF self.name # old THEN new ELSE self

Argument_substitute(self, old, new) ==
    IF self.name = old THEN new ELSE self

UnaryOperation_substitute(self, old, new) ==
    UnaryOperation(self.op, substitute(self.argument, old, new))

BinaryOperation_substitute(self, old, new) ==
    BinaryOperation(self.op, substitute(self.lhs, old, new), substitute(self.rhs, old, new))

\* Function.substitute without the shadowing test.
Function_substitute_noshadow(self, old, new) ==
    Function(self.argument, substitute(self.body, old, new))

Function_substitute(self, old, new) ==
    IF old = self.argument.name THEN self
    ELSE Function(self.argument, substitute(self.body, old, new))

Application_substitute(self, old, new) ==
    Application(substitute(self.target, old, new), substitute(self.value, old, new))

\* substitute rewriting the Variables named old as well as the Arguments.
substitute_capturing(e, old, new) ==
    CASE e.tag = "Argument" -> Argument_substitute(e, old, new)
      [] e.tag = "Variable" -> IF e.name = old THEN new ELSE e
      [] e.tag = "UnaryOperation" -> UnaryOperation_substitute(e, old, new)
      [] e.tag = "BinaryOperation" -> BinaryOperation_substitute(e, old, new)
      [] e.tag = "Function" -> Function_substitute(e, old, new)
      [] e.tag = "Application" -> Application_substitute(e, old, new)
      [] OTHER -> e

substitute(e, old, new) ==
    CASE e.tag = "Argument" -> Argument_substitute(e, old, new)
      [] e.tag = "UnaryOperation" -> UnaryOperation_substitute(e, old, new)
      [] e.tag = "BinaryOperation" -> BinaryOperation_substitute(e, old, new)
      [] e.tag = "Function" -> Function_substitute(e, old, new)
      [] e.tag = "Application" -> Application_substitute(e, old, new)
      [] OTHER -> e

Function_substitute_argument(self, argument) ==
    substitute(self.body, self.argument.name, argument)

(***************************************************************************)
(* evaluate, class by class.  d is the number of evaluate frames the call  *)
(* stack still has room for.                                               *)
(***************************************************************************)
\* Variable.evaluate without the recursive evaluation of the bound value.
Variable_evaluate_shallow(self, c, d) ==
    IF self.name \in DOMAIN c.bound THEN Ret(c.bound[self.name])
    ELSE IF c.force_eval THEN Raise("NameError")
    ELSE Ret(self)

\* Variable.evaluate raising on a free variable whatever force_eval says.
Variable_evaluate_strict(self, c, d) ==
    IF self.name \in DOMAIN c.bound
    THEN IF c.eval_step THEN Ret(c.bound[self.name])
         ELSE evaluate(c.bound[self.name], c, d - 1)
    ELSE Raise("NameError")

Variable_evaluate(self, c, d) ==
    IF self.name \in DOMAIN c.bound
    THEN IF c.eval_step THEN Ret(c.bound[self.name])
         ELSE evaluate(c.bound[self.name], c, d - 1)
    ELSE IF c.force_eval THEN Raise("NameError")
    ELSE Ret(self)

\* The loop of List.evaluate from index i on, `evaluated` being the copy.
RECURSIVE List_evaluate_from(_, _, _, _)
List_evaluate_from(evaluated, i, c, d) ==
    IF i > Len(evaluated) THEN Ret(List(evaluated))
    ELSE IF is_atomic(evaluated[i], c) /\ ~isinstance(evaluated[i], "Variable")
    THEN List_evaluate_from(evaluated, i + 1, c, d)
    ELSE LET r == evaluate(evaluated[i], c, d - 1)
         IN IF r.exc # "none" THEN r
            ELSE IF c.eval_step THEN Ret(List([evaluated EXCEPT ![i] = r.val]))
            ELSE List_evaluate_from([evaluated EXCEPT ![i] = r.val], i + 1, c, d)

List_evaluate(self, c, d) == List_evaluate_from(self.expressions, 1, c, d)

UnaryOperation_evaluate(self, c, d) ==
    LET keep == is_atomic(self.argument, c) /\ ~isinstance(self.argument, "Variable")
        r == IF keep THEN Ret(self.argument) ELSE evaluate(self.argument, c, d - 1)
        new_arg == r.val
    IN IF r.exc # "none" THEN r
       ELSE IF ~keep /\ c.eval_step THEN Ret(UnaryOperation(self.op, new_arg))
       ELSE IF ~c.eval_ops THEN Ret(UnaryOperation(self.op, new_arg))
       ELSE IF UnaryOperation_table_has(self.op, new_arg)
       THEN UnaryOperation_table(self.op, new_arg)
       ELSE IF c.force_eval THEN Raise("TypeError")
       ELSE Ret(UnaryOperation(self.op, new_arg))

\* BinaryOperation.evaluate returning the node where no table entry matches,
\* whatever force_eval says.
BinaryOperation_evaluate_lenient(self, c, d) ==
    LET keepl == is_atomic(self.lhs, c) /\ ~isinstance(self.lhs, "Variable")
        rl == IF keepl THEN Ret(self.lhs) ELSE evaluate(self.lhs, c, d - 1)
        new_lhs == rl.val
        keepr == is_atomic(self.rhs, c) /\ ~isinstance(self.rhs, "Variable")
        rr == IF keepr THEN Ret(self.rhs) ELSE evaluate(self.rhs, c, d - 1)
        new_rhs == rr.val
    IN IF rl.exc # "none" THEN rl
       ELSE IF ~keepl /\ c.eval_step THEN Ret(BinaryOperation(self.op, new_lhs, self.rhs))
       ELSE IF rr.exc # "none" THEN rr
       ELSE IF ~keepr /\ c.eval_step THEN Ret(BinaryOperation(self.op, self.lhs, new_rhs))
       ELSE IF ~c.eval_ops THEN Ret(BinaryOperation(self.op, new_lhs, new_rhs))
       ELSE IF BinaryOperation_table_has(self.op, new_lhs, new_rhs)
       THEN BinaryOperation_table(self.op, new_lhs, new_rhs)
       ELSE Ret(BinaryOperation(self.op, new_lhs, new_rhs))

BinaryOperation_evaluate(self, c, d) ==
    LET keepl == is_atomic(self.lhs, c) /\ ~isinstance(self.lhs, "Variable")
        rl == IF keepl THEN Ret(self.lhs) ELSE evaluate(self.lhs, c, d - 1)
        new_lhs == rl.val
        keepr == is_atomic(self.rhs, c) /\ ~isinstance(self.rhs, "Variable")
        rr == IF keepr THEN Ret(self.rhs) ELSE evaluate(self.rhs, c, d - 1)
        new_rhs == rr.val
    IN IF rl.exc # "none" THEN rl
       ELSE IF ~keepl /\ c.eval_step THEN Ret(BinaryOperation(self.op, new_lhs, self.rhs))
       ELSE IF rr.exc # "none" THEN rr
       ELSE IF ~keepr /\ c.eval_step THEN Ret(BinaryOperation(self.op, self.lhs, new_rhs))
       ELSE IF ~c.eval_ops THEN Ret(BinaryOperation(self.op, new_lhs, new_rhs))
       ELSE IF BinaryOperation_table_has(self.op, new_lhs, new_rhs)
       THEN BinaryOperation_table(self.op, new_lhs, new_rhs)
       ELSE IF c.force_eval THEN Raise("TypeError")
       ELSE Ret(BinaryOperation(self.op, new_lhs, new_rhs))

Application_evaluate(self, c, d) ==
    LET keept == is_atomic(self.target, c)
        rt == IF keept THEN Ret(self.target) ELSE evaluate(self.target, c, d - 1)
        new_target == rt.val
        keepv == is_atomic(self.value, c)
        rv == IF keepv THEN Ret(self.value) ELSE evaluate(self.value, c, d - 1)
        new_value == rv.val
        result == Function_substitute_argument(new_target, new_value)
    IN IF rt.exc # "none" THEN rt
       ELSE IF ~keept /\ c.eval_step THEN Ret(Application(new_target, self.value))
       ELSE IF rv.exc # "none" THEN rv
       ELSE IF ~keepv /\ c.eval_step THEN Ret(Application(self.target, new_value))
       ELSE IF isinstance(new_target, "Function")
       THEN IF c.eval_step THEN Ret(result) ELSE evaluate(result, c, d - 1)
       ELSE IF c.force_eval THEN Raise("ValueError")
       ELSE Ret(Application(new_target, new_value))

evaluate(e, c, d) ==
    IF d <= 0 THEN Raise("RecursionError")
    ELSE CASE e.tag = "Integer" -> Ret(e)
           [] e.tag = "Argument" -> Ret(e)
           [] e.tag = "Function" -> Ret(e)
           [] e.tag = "Variable" -> Variable_evaluate(e, c, d)
           [] e.tag = "List" -> List_evaluate(e, c, d)
           [] e.tag = "UnaryOperation" -> UnaryOperation_evaluate(e, c, d)
           [] e.tag = "BinaryOperation" -> BinaryOperation_evaluate(e, c, d)
           [] e.tag = "Application" -> Application_evaluate(e, c, d)

(***************************************************************************)
(* lc/lexer.py: lex, one action per iteration of its while loop.  The      *)
(* source is a string; source[pos] is Char(pos).                           *)
(***************************************************************************)
Token(src, type, line, c) == [source |-> src, type |-> type, line |-> line, col |-> c]

\* constant_tokens, in the order of the dict
constant_tokens ==
    << <<".", "DOT">>, <<"\\", "LAMBDA">>, <<",", "COMMA">>, <<"(", "LPAREN">>,
       <<")", "RPAREN">>, <<"[", "LSQUARE">>, <<"]", "RSQUARE">>, <<"<-", "ARROW">>,
       <<"+", "PLUS">>, <<"-", "MINUS">>, <<"*", "STAR">>, <<"/", "SLASH">> >>

\* str.islower, str.isnumeric and str.isspace on one ASCII character
islower(c) ==
    c \in {"a", "b", "c", "d", "e", "f", "g", "h", "i", "j", "k", "l", "m",
           "n", "o", "p", "q", "r", "s", "t", "u", "v", "w", "x", "y", "z"}
isnumeric(c) == c \in {"0", "1", "2", "3", "4", "5", "6", "7", "8", "9"}
isspace(c) == c \in {" ", "\t", "\n", "\r", "\f"}

Char(i) == SubSeq(source, i + 1, i + 1)

\* source[i:i+Len(symbol)] == symbol
StartsWith(i, symbol) ==
    /\ i + Len(symbol) <= Len(source)
    /\ SubSeq(source, i + 1, i + Len(symbol)) = symbol

\* the index in constant_tokens of the first symbol found at pos, or 0
ConstantAt(i) ==
    LET hits == {n \in 1..Len(constant_tokens) : StartsWith(i, constant_tokens[n][1])}
    IN IF hits = {} THEN 0 ELSE CHOOSE n \in hits : \A m \in hits : n <= m

\* the end of the maximal run of characters satisfying the test, from i
RECURSIVE LowerRunEnd(_)
LowerRunEnd(i) == IF i < Len(source) /\ islower(Char(i)) THEN LowerRunEnd(i + 1) ELSE i
RECURSIVE NumericRunEnd(_)
NumericRunEnd(i) == IF i < Len(source) /\ isnumeric(Char(i)) THEN NumericRunEnd(i + 1) ELSE i

AtNewline ==
    Char(pos) = "\n" \/ (Char(pos) = "\r" /\ pos + 1 < Len(source) /\ Char(pos + 1) = "\n")

\* the statement list after `if len(tokens) > 0: statements.append(tokens)`
Flushed == IF Len(tokens) > 0 THEN Append(statements, tokens) ELSE statements

LexRaise(x) == pc' = "raised" /\ error' = x

\* source[pos + 1] with '\r' as the last character of the source
LexIndexError ==
    /\ pc = "lex" /\ pos < Len(source)
    /\ Char(pos) = "\r" /\ pos + 1 = Len(source)
    /\ LexRaise("IndexError")
    /\ UNCHANGED <<lexvars, execvars>>

\* eat newline: the statement ends, and the brackets must be balanced
LexNewline ==
    /\ pc = "lex" /\ pos < Len(source)
    /\ ~(Char(pos) = "\r" /\ pos + 1 = Len(source))
    /\ AtNewline
    /\ in_comment' = FALSE
    /\ line_number' = line_number + 1
    /\ col' = 0
    /\ statements' = Flushed
    /\ tokens' = <<>>
    /\ pos' = pos + (IF Char(pos) = "\n" THEN 1 ELSE 2)
    /\ IF Len(parens) # 0
       THEN /\ parens' = SubSeq(parens, 1, Len(parens) - 1)
            /\ LexRaise("SyntaxError: unbalanced brackets")
       ELSE /\ parens' = <<>>
            /\ UNCHANGED <<pc, error>>
    /\ UNCHANGED <<source, execvars>>

LexNotNewline ==
    /\ pc = "lex" /\ pos < Len(source)
    /\ ~(Char(pos) = "\r" /\ pos + 1 = Len(source))
    /\ ~AtNewline

\* if we are in a comment, skip
LexComment ==
    /\ LexNotNewline
    /\ in_comment
    /\ pos' = pos + 1
    /\ UNCHANGED <<source, col, line_number, tokens, statements, parens, in_comment,
                   execvars, pc, error>>

\* eat whitespace
LexSpace ==
    /\ LexNotNewline
    /\ ~in_comment
    /\ isspace(Char(pos))
    /\ pos' = pos + 1
    /\ col' = col + 1
    /\ UNCHANGED <<source, line_number, tokens, statements, parens, in_comment,
                   execvars, pc, error>>

\* comment?
LexHash ==
    /\ LexNotNewline
    /\ ~in_comment
    /\ ~isspace(Char(pos))
    /\ Char(pos) = "#"
    /\ in_comment' = TRUE
    /\ pos' = pos + 1
    /\ UNCHANGED <<source, col, line_number, tokens, statements, parens, execvars, pc, error>>

\* semicolon? the statement ends; parens is left as it is
LexSemicolon ==
    /\ LexNotNewline
    /\ ~in_comment
    /\ ~isspace(Char(pos))
    /\ Char(pos) = ";"
    /\ statements' = Flushed
    /\ tokens' = <<>>
    /\ pos' = pos + 1
    /\ UNCHANGED <<source, col, line_number, parens, in_comment, execvars, pc, error>>

\* scan one token: a constant token (with the bracket stack), a variable or
\* an integer
LexToken ==
    /\ LexNotNewline
    /\ ~in_comment
    /\ ~isspace(Char(pos))
    /\ Char(pos) \notin {"#", ";"}
    /\ LET n == ConstantAt(pos)
       IN IF n # 0
          THEN LET symbol == constant_tokens[n][1]
                   token == Token(symbol, constant_tokens[n][2], line_number, col)
               IN /\ pos' = pos + Len(symbol)
                  /\ col' = col + Len(symbol)
                  /\ CASE token.type = "LPAREN" ->
                            /\ parens' = Append(parens, ")")
                            /\ tokens' = Append(tokens, token)
                            /\ UNCHANGED <<pc, error>>
                       [] token.type = "LSQUARE" ->
                            /\ parens' = Append(parens, "]")
                            /\ tokens' = Append(tokens, token)
                            /\ UNCHANGED <<pc, error>>
                       [] token.type \in {"RPAREN", "RSQUARE"} ->
                            IF Len(parens) = 0
                            THEN /\ LexRaise("SyntaxError: no opening bracket found")
                                 /\ UNCHANGED <<parens, tokens>>
                            ELSE /\ parens' = SubSeq(parens, 1, Len(parens) - 1)
                                 /\ IF parens[Len(parens)] # token.source
                                    THEN /\ LexRaise("SyntaxError: mismatching brackets")
                                         /\ UNCHANGED tokens
                                    ELSE /\ tokens' = Append(tokens, token)
                                         /\ UNCHANGED <<pc, error>>
                       [] OTHER ->
                            /\ tokens' = Append(tokens, token)
                            /\ UNCHANGED <<parens, pc, error>>
          ELSE IF islower(Char(pos))
          THEN LET end == LowerRunEnd(pos)
               IN /\ tokens' = Append(tokens,
                                  Token(SubSeq(source, pos + 1, end), "VARIABLE", line_number, col))
                  /\ pos' = end
                  /\ col' = col + (end - pos)
                  /\ UNCHANGED <<parens, pc, error>>
          ELSE IF isnumeric(Char(pos))
          THEN LET end == NumericRunEnd(pos)
               IN /\ tokens' = Append(tokens,
                                  Token(SubSeq(source, pos + 1, end), "INT", line_number, col))
                  /\ pos' = end
                  /\ col' = col + (end - pos)
                  /\ UNCHANGED <<parens, pc, error>>
          ELSE /\ LexRaise("SyntaxError: unexpected character")
               /\ UNCHANGED <<pos, col, tokens, parens>>
    /\ UNCHANGED <<source, line_number, statements, in_comment, execvars>>

\* after the loop: if tokens remain, check the brackets and add the statement;
\* lex returns statements
LexFinish ==
    /\ pc = "lex" /\ pos >= Len(source)
    /\ IF Len(tokens) > 0
       THEN IF Len(parens) > 0
            THEN /\ parens' = SubSeq(parens, 1, Len(parens) - 1)
                 /\ LexRaise("SyntaxError: unbalanced brackets")
                 /\ UNCHANGED statements
            ELSE /\ statements' = Append(statements, tokens)
                 /\ pc' = "parse"
                 /\ UNCHANGED <<parens, error>>
       ELSE /\ pc' = "parse"
            /\ UNCHANGED <<statements, parens, error>>
    /\ UNCHANGED <<source, pos, col, line_number, tokens, in_comment, execvars>>

NextLex ==
    \/ LexIndexError \/ LexNewline \/ LexComment \/ LexSpace \/ LexHash
    \/ LexSemicolon \/ LexToken \/ LexFinish

(***************************************************************************)
(* lc/parser.py: ParseContext and the recursive-descent parser.  A parse   *)
(* function takes the ParseContext p and gives the ParseContext it leaves, *)
(* with the expression it returns or the exception it raises.  The token   *)
(* types CONSTANT and COLON are named by the parser; lex produces neither. *)
(***************************************************************************)
ParseOk(p, e) == [exc |-> "none", parser |-> p, expr |-> e]
ParseRaise(p, x) == [exc |-> x, parser |-> p, expr |-> None]

Constant(name) == [tag |-> "Constant", name |-> name]

\* int(token.source) on a string of digits
RECURSIVE int(_)
int(s) ==
    IF Len(s) = 0 THEN 0
    ELSE LET d == SubSeq(s, Len(s), Len(s))
             v == CASE d = "0" -> 0 [] d = "1" -> 1 [] d = "2" -> 2 [] d = "3" -> 3
                    [] d = "4" -> 4 [] d = "5" -> 5 [] d = "6" -> 6 [] d = "7" -> 7
                    [] d = "8" -> 8 [] d = "9" -> 9
         IN int(SubSeq(s, 1, Len(s) - 1)) * 10 + v

reset(p) == [p EXCEPT !.pos = 0]
reset_tokens(p, toks) == [p EXCEPT !.pos = 0, !.tokens = toks]

get(p, offset) ==
    LET i == p.pos + offset
    IN IF 0 <= i /\ i < Len(p.tokens) THEN p.tokens[i + 1] ELSE None

move(p, offset) == [p EXCEPT !.pos = @ + offset]
eof(p) == p.pos >= Len(p.tokens)

\* expect without advance: the type of the token at pos + offset is in types
expect(p, types, offset) == get(p, offset) # None /\ get(p, offset).type \in types

\* what a failed expect(raise_error=True) or syntax_error(parser.get(), ...)
\* raises: token.location() on None is an AttributeError
expect_error(p) == IF get(p, 0) = None THEN "AttributeError" ELSE "SyntaxError: expected"

is_arg(p, symbol) == \E i \in 1..Len(p.args) : p.args[i] = symbol
push_arg(p, arg) == [p EXCEPT !.args = Append(@, arg.name)]
pop_arg(p) == [p EXCEPT !.args = SubSeq(@, 1, Len(@) - 1)]

RECURSIVE pop_args(_, _)
pop_args(p, n) == IF n = 0 THEN p ELSE pop_args(pop_arg(p), n - 1)

\* the value of a call, named once for the code that follows it
Then(v, F(_)) == CHOOSE y \in {F(x) : x \in {v}} : TRUE

RECURSIVE parse_function_arguments(_, _)
RECURSIVE parse_function_nest(_, _)
RECURSIVE parse_function(_)
RECURSIVE parse_group(_)
RECURSIVE parse_list_items(_, _)
RECURSIVE parse_list(_)
RECURSIVE parse_unit_arguments(_, _)
RECURSIVE parse_unit(_, _)
RECURSIVE parse_expression(_)

\* while parser.expect(TokenType.VARIABLE): one more argument, pushed
parse_function_arguments(p, arguments) ==
    IF expect(p, {"VARIABLE"}, 0)
    THEN LET a == Argument(get(p, 0).source)
         IN parse_function_arguments(push_arg(move(p, 1), a), Append(arguments, a))
    ELSE [parser |-> p, arguments |-> arguments]

\* while len(arguments) > 0: func = Function(arguments.pop(), func)
parse_function_nest(arguments, func) ==
    IF Len(arguments) = 0 THEN func
    ELSE parse_function_nest(SubSeq(arguments, 1, Len(arguments) - 1),
                             Function(arguments[Len(arguments)], func))

parse_function(p) ==
    IF ~expect(p, {"LAMBDA"}, 0) THEN ParseRaise(p, expect_error(p))
    ELSE LET p1 == move(p, 1)
         IN IF ~expect(p1, {"VARIABLE"}, 0) THEN ParseRaise(p1, expect_error(p1))
            ELSE LET argument == Argument(get(p1, 0).source)
                 IN IF p1.multi_args
                    THEN Then(parse_function_arguments(push_arg(move(p1, 1), argument),
                                                       <<argument>>),
                           LAMBDA a :
                             IF ~expect(a.parser, {"DOT"}, 0)
                             THEN ParseRaise(a.parser, expect_error(a.parser))
                             ELSE Then(parse_expression(move(a.parser, 1)),
                                    LAMBDA body :
                                      IF body.exc # "none" THEN body
                                      ELSE ParseOk(pop_args(body.parser, Len(a.arguments)),
                                                   parse_function_nest(a.arguments,
                                                                       body.expr))))
                    ELSE LET p2 == move(p1, 1)
                         IN IF ~expect(p2, {"DOT"}, 0) THEN ParseRaise(p2, expect_error(p2))
                            ELSE Then(parse_expression(push_arg(move(p2, 1), argument)),
                                   LAMBDA body :
                                     IF body.exc # "none" THEN body
                                     ELSE ParseOk(pop_arg(body.parser),
                                                  Function(argument, body.expr)))

parse_group(p) ==
    IF ~expect(p, {"LPAREN"}, 0) THEN ParseRaise(p, expect_error(p))
    ELSE Then(parse_expression(move(p, 1)),
           LAMBDA r :
             IF r.exc # "none" THEN r
             ELSE IF ~expect(r.parser, {"RPAREN"}, 0)
             THEN ParseRaise(r.parser, expect_error(r.parser))
             ELSE ParseOk(move(r.parser, 1), r.expr))

\* the while True loop of parse_list, and the closing bracket
parse_list_items(p, items) ==
    Then(parse_expression(p),
      LAMBDA r :
        IF r.exc # "none" THEN r
        ELSE IF expect(r.parser, {"COMMA"}, 0)
        THEN parse_list_items(move(r.parser, 1), Append(items, r.expr))
        ELSE IF ~expect(r.parser, {"RSQUARE"}, 0)
        THEN ParseRaise(r.parser, expect_error(r.parser))
        ELSE ParseOk(move(r.parser, 1), List(Append(items, r.expr))))

parse_list(p) ==
    IF ~expect(p, {"LSQUARE"}, 0) THEN ParseRaise(p, expect_error(p))
    ELSE LET p1 == move(p, 1)
         IN IF expect(p1, {"RSQUARE"}, 0) THEN ParseOk(move(p1, 1), List(<<>>))
            ELSE parse_list_items(p1, <<>>)

\* parse applied arguments
parse_unit_arguments(p, expr) ==
    IF expect(p, {"LAMBDA", "VARIABLE", "INT", "LPAREN", "LSQUARE", "CONSTANT"}, 0)
    THEN Then(parse_unit(p, FALSE),
           LAMBDA a :
             IF a.exc # "none" THEN a
             ELSE parse_unit_arguments(a.parser, Application(expr, a.expr)))
    ELSE ParseOk(p, expr)

\* the if/elif chain of parse_unit
parse_unit_head(p) ==
    LET token == get(p, 0)
        p1 == move(p, 1)
    IN IF expect(p, {"LAMBDA"}, 0) THEN parse_function(p)
       ELSE IF expect(p, {"VARIABLE"}, 0)
       THEN ParseOk(p1, IF is_arg(p1, token.source) THEN Argument(token.source)
                        ELSE Variable(token.source))
       ELSE IF expect(p, {"CONSTANT"}, 0) THEN ParseOk(p1, Constant(token.source))
       ELSE IF expect(p, {"MINUS"}, 0)
       THEN IF expect(p1, {"INT"}, 0)
            THEN ParseOk(move(p1, 1), Integer(0 - int(get(p1, 0).source)))
            ELSE Then(parse_unit(p1, TRUE),
                   LAMBDA u :
                     IF u.exc # "none" THEN u
                     ELSE ParseOk(u.parser, UnaryOperation(token.source, u.expr)))
       ELSE IF expect(p, {"INT"}, 0) THEN ParseOk(p1, Integer(int(token.source)))
       ELSE IF expect(p, {"LPAREN"}, 0) THEN parse_group(p)
       ELSE IF expect(p, {"LSQUARE"}, 0) THEN parse_list(p)
       ELSE ParseRaise(p, expect_error(p))

parse_unit(p, allow_args) ==
    Then(parse_unit_head(p),
      LAMBDA r :
        IF r.exc # "none" \/ ~allow_args THEN r
        ELSE parse_unit_arguments(r.parser, r.expr))

parse_binary_operator(p) ==
    IF ~expect(p, {"PLUS", "MINUS", "STAR", "SLASH", "COLON"}, 0)
    THEN ParseRaise(p, expect_error(p))
    ELSE ParseOk(move(p, 1), get(p, 0).source)

parse_expression(p) ==
    Then(parse_unit(p, TRUE),
      LAMBDA lhs :
        IF lhs.exc # "none" THEN lhs
        ELSE IF eof(lhs.parser) \/ expect(lhs.parser, {"RPAREN", "COMMA", "RSQUARE"}, 0)
        THEN lhs
        ELSE LET op == parse_binary_operator(lhs.parser)
             IN IF op.exc # "none" THEN op
                ELSE Then(parse_expression(op.parser),
                       LAMBDA rhs :
                         IF rhs.exc # "none" THEN rhs
                         ELSE ParseOk(rhs.parser,
                                      BinaryOperation(op.expr, lhs.expr, rhs.expr))))

\* a statement parses to an expression, to None (a binding, committed to
\* bound) or to an exception
Parsed(exc, p, e, bound) == [exc |-> exc, parser |-> p, expr |-> e, bound |-> bound]

\* the end of parse for an assignment: overwriting is forbidden
parse_bind_overwrite(p, symbol, expr, c) ==
    Parsed("none", p, None, (symbol.source :> expr) @@ c.bound)

parse_bind(p, symbol, expr, c) ==
    IF symbol.source \in DOMAIN c.bound THEN Parsed("NameError", p, None, c.bound)
    ELSE Parsed("none", p, None, (symbol.source :> expr) @@ c.bound)

\* check for assignment
is_assignment(p) == expect(p, {"VARIABLE"}, 0) /\ expect(p, {"ARROW"}, 1)

parse(p0, c) ==
    LET p == reset(p0)
        symbol == IF is_assignment(p) THEN get(p, 0) ELSE None
    IN Then(parse_expression(IF symbol # None THEN move(p, 2) ELSE p),
         LAMBDA r :
           IF r.exc # "none" THEN Parsed(r.exc, r.parser, None, c.bound)
           ELSE IF ~eof(r.parser)
           THEN Parsed("SyntaxError: expected", r.parser, None, c.bound)
           ELSE IF symbol = None THEN Parsed("none", r.parser, r.expr, c.bound)
           ELSE parse_bind(r.parser, symbol, r.expr, c))

(***************************************************************************)
(* lc/execute.py: the evaluation and printing of the parsed expressions.   *)
(* An output entry stands for one print call: the statement header, the    *)
(* raw expression, the first result, or a '-> ' step of the while loop.    *)
(***************************************************************************)
Printed(kind, e) == [kind |-> kind, k |-> k, expr |-> e]

\* one item of the generator: parse(parser.reset(statement), ctx); a binding
\* is committed to ctx.bound, an expression is kept for the for loop
ExecParse ==
    /\ pc = "parse"
    /\ nparsed < Len(statements)
    /\ \E r \in {parse(reset_tokens(parser, statements[nparsed + 1]), ctx)} :
          /\ parser' = r.parser
          /\ ctx' = [ctx EXCEPT !.bound = r.bound]
          /\ IF r.exc = "none"
             THEN /\ nparsed' = nparsed + 1
                  /\ expressions' = IF r.expr # None THEN Append(expressions, r.expr)
                                    ELSE expressions
                  /\ UNCHANGED <<pc, error>>
             ELSE /\ pc' = "raised"
                  /\ error' = r.exc
                  /\ UNCHANGED <<nparsed, expressions>>
    /\ UNCHANGED <<lexvars, output_raw, k, expression, output>>

\* the generator is exhausted: expressions is complete
ExecParsed ==
    /\ pc = "parse"
    /\ nparsed = Len(statements)
    /\ pc' = "evaluate"
    /\ UNCHANGED <<lexvars, execvars, error>>

\* for k, expression in enumerate(expressions): header, raw form, first evaluate
ExecEvaluate ==
    /\ pc = "evaluate"
    /\ k < Len(expressions)
    /\ LET e == expressions[k + 1]
           out1 == IF Len(expressions) > 1 THEN Append(output, Printed("header", None))
                   ELSE output
           out2 == IF output_raw \/ ctx.eval_step THEN Append(out1, Printed("raw", e))
                   ELSE out1
           r == evaluate(e, ctx, MaxRecursion)
       IN IF r.exc = "none"
          THEN /\ expression' = r.val
               /\ output' = Append(out2, Printed("result", r.val))
               /\ pc' = "loop"
               /\ error' = error
          ELSE /\ expression' = e
               /\ output' = out2
               /\ pc' = "raised"
               /\ error' = r.exc
    /\ UNCHANGED <<lexvars, parser, ctx, output_raw, nparsed, expressions, k>>

\* while not expression.is_atomic(ctx): evaluate again and print
ExecLoopStep ==
    /\ pc = "loop"
    /\ ~is_atomic(expression, ctx)
    /\ Len(output) < MaxOutput
    /\ LET r == evaluate(expression, ctx, MaxRecursion)
       IN IF r.exc = "none"
          THEN /\ expression' = r.val
               /\ output' = Append(output, Printed("step", r.val))
               /\ UNCHANGED <<pc, error>>
          ELSE /\ pc' = "raised"
               /\ error' = r.exc
               /\ UNCHANGED <<expression, output>>
    /\ UNCHANGED <<lexvars, parser, ctx, output_raw, nparsed, expressions, k>>

\* the while loop ends; the for loop moves to the next expression
ExecLoopExit ==
    /\ pc = "loop"
    /\ is_atomic(expression, ctx)
    /\ k' = k + 1
    /\ pc' = "evaluate"
    /\ UNCHANGED <<lexvars, parser, ctx, output_raw, nparsed, expressions, expression,
                   output, error>>

\* the for loop is exhausted: execute returns
ExecReturn ==
    /\ pc = "evaluate"
    /\ k = Len(expressions)
    /\ pc' = "done"
    /\ UNCHANGED <<lexvars, execvars, error>>

(***************************************************************************)
(* Inputs of the reducer: every expression of at most MaxSize nodes over   *)
(* Names and the Integers 0 and 1, the Integer operations on               *)
(* -MaxInt..MaxInt, and the identity and shadowing applications.           *)
(***************************************************************************)
BinaryOps == {"+", "-", "*", "/"}

Atoms ==
    {Integer(0), Integer(1)} \cup {Variable(n) : n \in Names} \cup {Argument(n) : n \in Names}

RECURSIVE ExprsOfSize(_)
RECURSIVE ItemsOfSize(_)
\* the sequences of expressions whose sizes add up to m
ItemsOfSize(m) ==
    IF m = 0 THEN {<<>>}
    ELSE UNION {{<<h>> \o t : h \in ExprsOfSize(i), t \in ItemsOfSize(m - i)} : i \in 1..m}

\* the expressions of exactly n nodes
ExprsOfSize(n) ==
    IF n = 1 THEN Atoms \cup {List(<<>>)}
    ELSE {Function(Argument(a), b) : a \in Names, b \in ExprsOfSize(n - 1)}
         \cup {UnaryOperation("-", b) : b \in ExprsOfSize(n - 1)}
         \cup UNION {{Application(t, v) : t \in ExprsOfSize(i), v \in ExprsOfSize(n - 1 - i)}
                       : i \in 1..(n - 2)}
         \cup UNION {{BinaryOperation(op, l, r) :
                          op \in BinaryOps, l \in ExprsOfSize(i), r \in ExprsOfSize(n - 1 - i)}
                       : i \in 1..(n - 2)}
         \cup {List(items) : items \in ItemsOfSize(n - 1)}

SmallExprs == UNION {ExprsOfSize(n) : n \in 1..MaxSize}

ArithExprs ==
    {BinaryOperation(op, Integer(a), Integer(b)) :
        op \in BinaryOps, a \in (0 - MaxInt)..MaxInt, b \in (0 - MaxInt)..MaxInt}

Identity(x) == Function(Argument(x), Argument(x))

\* (\x. x) E
BetaExprs == {Application(Identity(x), e) : x \in Names, e \in SmallExprs}

\* (\x. \x. x) a b
ShadowExprs ==
    {Application(Application(Function(Argument(x), Identity(x)), Variable(a)), Variable(b)) :
        x \in Names, a \in Names, b \in Names}

\* (\x. v) e: a Function whose body is a Variable, applied to an atom
VariableBodyExprs ==
    {Application(Function(Argument(x), Variable(v)), e) : x \in Names, v \in Names, e \in Atoms}

EvalInputs == SmallExprs \cup ArithExprs \cup BetaExprs \cup ShadowExprs \cup VariableBodyExprs

\* What a name may be bound to: an Integer, a free Variable, the name itself,
\* a Function, a self-applying Function, a reducible operation.
BoundValues ==
    { Integer(1), Variable("y"), Variable("x"), Identity("x"),
      Function(Argument("x"), Application(Argument("x"), Argument("x"))),
      BinaryOperation("+", Integer(1), Integer(1)) }

Envs == {<<>>} \cup {("x" :> v) : v \in BoundValues}

ParseContext == [tokens |-> <<>>, pos |-> 0, args |-> <<>>, multi_args |-> FALSE]

\* The reducer alone: one expression, already parsed, under any context.
InitEval ==
    /\ source = "" /\ pos = 0 /\ col = 0 /\ line_number = 0
    /\ tokens = <<>> /\ statements = <<>> /\ parens = <<>> /\ in_comment = FALSE
    /\ parser = ParseContext
    /\ ctx \in [bound : Envs, eval_ops : BOOLEAN, eval_step : BOOLEAN, force_eval : BOOLEAN]
    /\ output_raw = FALSE
    /\ nparsed = 0
    /\ expressions \in {<<e>> : e \in EvalInputs}
    /\ k = 0
    /\ expression = None
    /\ output = <<>>
    /\ pc = "evaluate"
    /\ error = "none"

NextEval == ExecEvaluate \/ ExecLoopStep \/ ExecLoopExit \/ ExecReturn

SpecEval == InitEval /\ [][NextEval]_vars

(***************************************************************************)
(* The lexer alone: every source of at most MaxLen characters of LexChars. *)
(***************************************************************************)
LexChars == {"(", ")", "[", "]", ";", "\n", "\r", "#", "a", "1", "<"}

RECURSIVE SourcesOfLen(_)
SourcesOfLen(n) ==
    IF n = 0 THEN {""} ELSE {t \o c : t \in SourcesOfLen(n - 1), c \in LexChars}

InitLex ==
    /\ \E n \in 0..MaxLen : source \in SourcesOfLen(n)
    /\ pos = 0 /\ col = 0 /\ line_number = 0
    /\ tokens = <<>> /\ statements = <<>> /\ parens = <<>> /\ in_comment = FALSE
    /\ parser = ParseContext
    /\ ctx = EvalContext
    /\ output_raw = FALSE
    /\ nparsed = 0
    /\ expressions = <<>>
    /\ k = 0
    /\ expression = None
    /\ output = <<>>
    /\ pc = "lex"
    /\ error = "none"

SpecLex == InitLex /\ [][NextLex]_vars

(***************************************************************************)
(* execute as a whole: the source is up to MaxStatements statement texts   *)
(* joined by ';', or one of a few texts with newlines, comments, lists and *)
(* several-argument lambdas; the EvalContext starts with nothing bound.    *)
(***************************************************************************)
StatementTexts == {"x<-1", "x<-y", "y<-2", "x", "y+x", "(\\x.x) y", "x+"}

RECURSIVE ProgramsOfLen(_)
ProgramsOfLen(n) ==
    IF n = 1 THEN StatementTexts
    ELSE {t \o ";" \o st : t \in ProgramsOfLen(n - 1), st \in StatementTexts}

OtherSources ==
    {"[x, y]\n-x # a\r\n\\x y.x 1", "y\nx<-1 2\r", "(x;y)", "x\ny <- [ 1\n", "x <- - 3\n\nx/y",
     "(\\x.[x]) 1", "(\\x.(\\y.\\x.y) [x]) 1", "y<-\\x.[x];(\\x.x) (y 1)"}

Sources == UNION {ProgramsOfLen(n) : n \in 1..MaxStatements} \cup OtherSources

Init ==
    /\ source \in Sources
    /\ pos = 0 /\ col = 0 /\ line_number = 0
    /\ tokens = <<>> /\ statements = <<>> /\ parens = <<>> /\ in_comment = FALSE
    /\ parser \in [tokens : {<<>>}, pos : {0}, args : {<<>>}, multi_args : BOOLEAN]
    /\ ctx \in [bound : {<<>>}, eval_ops : BOOLEAN, eval_step : BOOLEAN, force_eval : BOOLEAN]
    /\ output_raw \in BOOLEAN
    /\ nparsed = 0
    /\ expressions = <<>>
    /\ k = 0
    /\ expression = None
    /\ output = <<>>
    /\ pc = "lex"
    /\ error = "none"

Next == NextLex \/ ExecParse \/ ExecParsed \/ NextEval

Spec == Init /\ [][Next]_vars

(***************************************************************************)
(* One ParseContext reused for a sequence of statements, as its lifecycle  *)
(* allows: the caller lexes a source and then parses every statement with  *)
(* parse(parser.reset(statement), ctx), going on to the next statement     *)
(* when a parse raises; error keeps the last exception.                    *)
(***************************************************************************)
SessionParse ==
    /\ pc = "parse"
    /\ nparsed < Len(statements)
    /\ \E r \in {parse(reset_tokens(parser, statements[nparsed + 1]), ctx)} :
          /\ parser' = r.parser
          /\ ctx' = [ctx EXCEPT !.bound = r.bound]
          /\ error' = r.exc
          /\ expressions' = IF r.exc = "none" /\ r.expr # None
                            THEN Append(expressions, r.expr)
                            ELSE expressions
    /\ nparsed' = nparsed + 1
    /\ UNCHANGED <<lexvars, output_raw, k, expression, output, pc>>

SessionTexts == {"x", "\\x.x", "\\x.*", "\\x.x+", "y<-x"}

RECURSIVE SessionsOfLen(_)
SessionsOfLen(n) ==
    IF n = 1 THEN SessionTexts
    ELSE {t \o ";" \o st : t \in SessionsOfLen(n - 1), st \in SessionTexts}

SessionSources ==
    UNION {SessionsOfLen(n) : n \in 1..MaxStatements}
        \cup {"\\x.* # a\r\nx y", "\\x y.*\nx\r"}

InitSession ==
    /\ source \in SessionSources
    /\ pos = 0 /\ col = 0 /\ line_number = 0
    /\ tokens = <<>> /\ statements = <<>> /\ parens = <<>> /\ in_comment = FALSE
    /\ parser \in [tokens : {<<>>}, pos : {0}, args : {<<>>}, multi_args : BOOLEAN]
    /\ ctx = EvalContext
    /\ output_raw = FALSE
    /\ nparsed = 0
    /\ expressions = <<>>
    /\ k = 0
    /\ expression = None
    /\ output = <<>>
    /\ pc = "lex"
    /\ error = "none"

NextSession == NextLex \/ SessionParse

SpecSession == InitSession /\ [][NextSession]_vars

(***************************************************************************)
(* The first evaluate call of the current statement has returned or has    *)
(* raised: E0 is the expression it was called on, Outcome what it gave.    *)
(***************************************************************************)
Returned == pc = "loop" /\ output[Len(output)].kind = "result"
FirstRaised ==
    pc = "raised" /\ (output = <<>> \/ output[Len(output)].kind \in {"header", "raw"})
Called == Returned \/ FirstRaised
E0 == expressions[k + 1]
Outcome == IF Returned THEN Ret(expression) ELSE Raise(error)
DefaultFlags == ctx.force_eval /\ ctx.eval_ops /\ ~ctx.eval_step
Unbound(name) == name \notin DOMAIN ctx.bound

E1 == expressions[1]

\* The result of one big-step evaluate call on E1 under the bindings,
\* eval_ops and force_eval of ctx.
BigStep1 == evaluate(E1, [ctx EXCEPT !.eval_step = FALSE], MaxRecursion)

\* The while loop of execute is at an expression that is not atomic and that
\* evaluate returns as it is: every further iteration is the same.
Stuck ==
    /\ pc = "loop"
    /\ ~is_atomic(expression, ctx)
    /\ evaluate(expression, ctx, MaxRecursion) = Ret(expression)

\* C2: for a non-atomic expression whose big-step evaluation returns, the
\* eval_step iteration of execute reaches an atomic expression (it never stays
\* at a non-atomic expression for ever, and it does not raise), and the
\* expression it ends with equals the big-step result.
SingleStepConvergence ==
    (ctx.eval_step /\ pc # "evaluate" /\ ~is_atomic(E1, ctx) /\ BigStep1.exc = "none") =>
        /\ ~Stuck
        /\ pc # "raised"
        /\ (pc = "done" => expression = BigStep1.val)

\* C3: is_atomic(E, ctx) is true iff evaluate(E, ctx) returns an expression
\* structurally equal to E.
AtomicIffNoProgress ==
    Called => (is_atomic(E0, ctx) <=> Outcome = Ret(E0))

\* The value of operand e after evaluate has dealt with it.
Reduced(e) == evaluate(e, ctx, MaxRecursion).val

\* C4: with force_eval = false no evaluate call fails with NameError, TypeError
\* or ValueError; a dead end (an unbound Variable, an operator without a table
\* entry, an application of a non-Function) whose operands are atomic is
\* returned as it is, and in big-step mode an operation or application that
\* is returned carries its reduced operands.
NoForceNoError ==
    ~ctx.force_eval =>
        /\ error \notin {"NameError", "TypeError", "ValueError"}
        /\ (Called /\ is_atomic(E0, ctx)) => Outcome = Ret(E0)
        /\ (Returned /\ ~ctx.eval_step /\ E0.tag = "BinaryOperation"
               /\ expression.tag = "BinaryOperation") =>
             expression = BinaryOperation(E0.op, Reduced(E0.lhs), Reduced(E0.rhs))
        /\ (Returned /\ ~ctx.eval_step /\ E0.tag = "UnaryOperation"
               /\ expression.tag = "UnaryOperation") =>
             expression = UnaryOperation(E0.op, Reduced(E0.argument))
        /\ (Returned /\ ~ctx.eval_step /\ E0.tag = "Application"
               /\ ~isinstance(Reduced(E0.target), "Function")) =>
             expression = Application(Reduced(E0.target), Reduced(E0.value))

\* C4 witness: with force_eval = false, the application of an unbound Variable
\* to a bound one has been returned with the operand reduced.
NoForceNoErrorWitness ==
    /\ ~ctx.force_eval /\ ~ctx.eval_step /\ Returned
    /\ E0.tag = "Application" /\ E0.target.tag = "Variable" /\ Unbound(E0.target.name)
    /\ E0.value.tag = "Variable" /\ ~Unbound(E0.value.name)
    /\ expression.tag = "Application" /\ expression.target = E0.target
    /\ expression.value # E0.value

IsIdentityOf(e) == \E x \in Names, y \in Names : e = Application(Identity(x), Variable(y))
IsShadowOf(e) ==
    \E x \in Names, a \in Names, b \in Names :
        e = Application(Application(Function(Argument(x), Identity(x)), Variable(a)), Variable(b))
\* the Variables of (\x. x) y, or of (\x. \x. x) a b, are free
FreeOperands(e) ==
    /\ Unbound(e.value.name)
    /\ IsShadowOf(e) => Unbound(e.target.value.name)

\* C8 as stated: under the default flags (\x. x) y yields y and
\* (\x. \x. x) a b yields b, for all names.
ShadowingDefaultFlags ==
    (Called /\ DefaultFlags /\ (IsIdentityOf(E0) \/ IsShadowOf(E0))) =>
        Outcome = Ret(E0.value)

\* C8 amended: for unbound names y, a, b, with force_eval = false and the
\* other flags at their defaults (\x. x) y yields y and (\x. \x. x) a b yields
\* b; under the default flags both fail with NameError.
Shadowing ==
    (Called /\ ctx.eval_ops /\ ~ctx.eval_step
        /\ (IsIdentityOf(E0) \/ IsShadowOf(E0)) /\ FreeOperands(E0)) =>
        Outcome = IF ctx.force_eval THEN Raise("NameError") ELSE Ret(E0.value)

\* C8 witness: (\x. \x. x) a b with a # b has been evaluated to b.
ShadowingWitness ==
    /\ Returned /\ ~ctx.force_eval /\ ctx.eval_ops /\ ~ctx.eval_step
    /\ IsShadowOf(E0) /\ FreeOperands(E0)
    /\ E0.target.value # E0.value
    /\ expression = E0.value

IsBeta(e) == \E x \in Names : e.tag = "Application" /\ e.target = Identity(x)

\* C9: in big-step mode, under every context, evaluating (\x. x) E gives the
\* outcome of evaluating E alone: the same expression, or the same failure.
BetaIdentity ==
    (Called /\ ~ctx.eval_step /\ IsBeta(E0)) =>
        Outcome = evaluate(E0.value, ctx, MaxRecursion)

\* C9 witness: (\x. x) E has returned for an E that is not atomic, with E
\* reduced.
BetaIdentityWitness ==
    /\ Returned /\ ~ctx.eval_step /\ IsBeta(E0)
    /\ ~is_atomic(E0.value, ctx)
    /\ expression # E0.value

IsArith(e) ==
    /\ e.tag = "BinaryOperation" /\ e.op \in BinaryOps
    /\ e.lhs.tag = "Integer" /\ e.rhs.tag = "Integer"

\* q is the floor of a / b: the quotient rounded toward negative infinity
IsFloorOf(q, a, b) ==
    IF b > 0 THEN q * b <= a /\ a < q * b + b
    ELSE q * b >= a /\ a > q * b + b

\* C10: with eval_ops = true, op on Integers a and b yields Integer(a+b),
\* Integer(a-b), Integer(a*b), and for / with b # 0 Integer(floor(a/b)).
IntegerArithmetic ==
    (Called /\ ctx.eval_ops /\ IsArith(E0) /\ ~(E0.op = "/" /\ E0.rhs.value = 0)) =>
        /\ Returned
        /\ expression.tag = "Integer"
        /\ LET a == E0.lhs.value
               b == E0.rhs.value
               r == expression.value
           IN CASE E0.op = "+" -> r = a + b
                [] E0.op = "-" -> r = a - b
                [] E0.op = "*" -> r = a * b
                [] E0.op = "/" -> IsFloorOf(r, a, b)

\* C10 witness: -7 / 2 has been evaluated to -4.
IntegerArithmeticWitness ==
    /\ Returned
    /\ E0 = BinaryOperation("/", Integer(0 - 7), Integer(2))
    /\ expression = Integer(0 - 4)

(***************************************************************************)
(* The closers still expected after a list of tokens, read as lex reads    *)
(* brackets; <<"!">> once a closer has no opener or the wrong one.         *)
(***************************************************************************)
RECURSIVE Expected(_, _)
Expected(toks, stack) ==
    IF toks = <<>> \/ stack = <<"!">> THEN stack
    ELSE LET t == Head(toks)
         IN CASE t.type = "LPAREN" -> Expected(Tail(toks), Append(stack, ")"))
              [] t.type = "LSQUARE" -> Expected(Tail(toks), Append(stack, "]"))
              [] t.type \in {"RPAREN", "RSQUARE"} ->
                   IF stack # <<>> /\ stack[Len(stack)] = t.source
                   THEN Expected(Tail(toks), SubSeq(stack, 1, Len(stack) - 1))
                   ELSE <<"!">>
              [] OTHER -> Expected(Tail(toks), stack)

Balanced(toks) == Expected(toks, <<>>) = <<>>

(***************************************************************************)
(* C7.  Bracket balance in lex: when lex returns, every statement it       *)
(* returns has each `(` closed by a matching `)` and each `[` by a         *)
(* matching `]`, and the stack of expected closers is empty.               *)
(***************************************************************************)
BracketBalance ==
    pc = "parse" =>
        /\ parens = <<>>
        /\ \A i \in 1..Len(statements) : Balanced(statements[i])

(***************************************************************************)
(* The statements as parse reads them: the name a statement binds, and the *)
(* expression on the right of its arrow.                                    *)
(***************************************************************************)
IsBinding(st) == is_assignment(reset_tokens(parser, st))
BoundName(st) == st[1].source
BoundExpr(st) ==
    parse_expression([tokens |-> st, pos |-> 2, args |-> <<>>,
                      multi_args |-> parser.multi_args])
WellFormedBinding(st) ==
    IsBinding(st) /\ BoundExpr(st).exc = "none" /\ eof(BoundExpr(st).parser)

\* statement i is the first of the parsed statements to bind name n
FirstBindingOf(n, i) ==
    /\ i \in 1..nparsed
    /\ IsBinding(statements[i]) /\ BoundName(statements[i]) = n
    /\ \A j \in 1..(i - 1) : ~(IsBinding(statements[j]) /\ BoundName(statements[j]) = n)

FirstBindingKept ==
    \A n \in DOMAIN ctx.bound :
        \E i \in 1..nparsed :
            FirstBindingOf(n, i) /\ ctx.bound[n] = BoundExpr(statements[i]).expr

BoundKept ==
    \A n \in DOMAIN ctx.bound : n \in DOMAIN ctx'.bound /\ ctx'.bound[n] = ctx.bound[n]

Rebinding ==
    /\ pc = "parse" /\ nparsed < Len(statements)
    /\ WellFormedBinding(statements[nparsed + 1])
    /\ BoundName(statements[nparsed + 1]) \in DOMAIN ctx.bound

RebindFails == Rebinding => pc' = "raised" /\ error' = "NameError" /\ ctx' = ctx

EvaluateKeepsBound == pc \in {"evaluate", "loop"} => ctx' = ctx

(***************************************************************************)
(* C5.  ctx.bound is write-once: every bound name maps to the expression   *)
(* of its first binding statement; no step removes or changes an entry; a  *)
(* statement `name <- expr` whose name is already bound fails with         *)
(* NameError and leaves ctx.bound unchanged; no evaluate call touches      *)
(* ctx.bound.                                                              *)
(***************************************************************************)
WriteOnce ==
    /\ []FirstBindingKept
    /\ [][BoundKept /\ RebindFails /\ EvaluateKeepsBound]_vars

\* a second binding of a bound name has failed with NameError, and the name
\* still maps to the expression of its first binding
WriteOnceWitness ==
    /\ pc = "raised" /\ error = "NameError"
    /\ nparsed >= 1 /\ nparsed < Len(statements)
    /\ WellFormedBinding(statements[nparsed + 1])
    /\ BoundName(statements[nparsed + 1]) \in DOMAIN ctx.bound
    /\ \E i \in 1..nparsed :
          /\ FirstBindingOf(BoundName(statements[nparsed + 1]), i)
          /\ BoundExpr(statements[i]).expr # BoundExpr(statements[nparsed + 1]).expr
          /\ ctx.bound[BoundName(statements[nparsed + 1])] = BoundExpr(statements[i]).expr

(***************************************************************************)
(* The position in statements of the expression statement that the for     *)
(* loop of execute is at: the statement of expressions[k].                 *)
(***************************************************************************)
RECURSIVE StatementIndex(_, _)
StatementIndex(i, n) ==
    IF ~IsBinding(statements[i])
    THEN IF n = 0 THEN i ELSE StatementIndex(i + 1, n - 1)
    ELSE StatementIndex(i + 1, n)

NamesBoundBefore(i) ==
    {BoundName(statements[j]) : j \in {j \in 1..(i - 1) : IsBinding(statements[j])}}

\* the evaluation of a statement sees no binding made by a statement after it
SeesOnlyEarlierBindings ==
    (pc \in {"evaluate", "loop"} /\ k < Len(expressions)) =>
        DOMAIN ctx.bound \subseteq NamesBoundBefore(StatementIndex(1, k))

\* when the parse of a statement fails, the results of the expression
\* statements before it have been printed
EarlierOutputSurvives ==
    (pc = "raised" /\ statements # <<>> /\ nparsed < Len(statements)) =>
        \A j \in 1..Len(expressions) :
            \E i \in 1..Len(output) : output[i].kind = "result" /\ output[i].k = j - 1

(***************************************************************************)
(* C6.  execute processes statements one at a time in source order: the    *)
(* evaluation of statement k sees the bindings of the statements before it *)
(* and none made by a statement after it, and a statement that fails does  *)
(* not prevent the output of the statements before it.                     *)
(***************************************************************************)
StatementOrder == SeesOnlyEarlierBindings /\ EarlierOutputSurvives

(***************************************************************************)
(* The operands of an operation node, and what evaluate makes of one       *)
(* before the table is consulted.                                          *)
(***************************************************************************)
IsOperation(e) == e.tag \in {"UnaryOperation", "BinaryOperation"}
Operands(e) == IF e.tag = "UnaryOperation" THEN <<e.argument>> ELSE <<e.lhs, e.rhs>>

FreeVariable(e) == e.tag = "Variable" /\ Unbound(e.name)

\* the operand is atomic, or evaluate reduces it to an atomic expression
ReducesToAtomic(e) ==
    \/ is_atomic(e, ctx)
    \/ LET r == evaluate(e, ctx, MaxRecursion - 1)
       IN r.exc = "none" /\ is_atomic(r.val, ctx)

\* the expression the table is asked about for operand e
OperandValue(e) ==
    IF is_atomic(e, ctx) THEN e ELSE evaluate(e, ctx, MaxRecursion - 1).val

\* the table has no entry: the operands are not all Integers
NoTableEntry(e) ==
    \E i \in 1..Len(Operands(e)) : OperandValue(Operands(e)[i]).tag # "Integer"

UnsupportedCase ==
    /\ Called /\ DefaultFlags /\ IsOperation(E0)
    /\ \A i \in 1..Len(Operands(E0)) : ReducesToAtomic(Operands(E0)[i])
    /\ NoTableEntry(E0)

\* C11 as stated: under force_eval = true and eval_ops = true in big-step
\* mode, an operation whose operands are atomic or reduce to atomic
\* expressions and for which the table has no entry fails with TypeError,
\* whatever the operand variant (an unbound Variable included).
UnsupportedOperandsAnyVariant == UnsupportedCase => Outcome = Raise("TypeError")

\* C11 amended: such an operation fails with TypeError when none of its
\* operands is an unbound Variable, and with NameError when one is.
UnsupportedOperands ==
    UnsupportedCase =>
        Outcome = IF \E i \in 1..Len(Operands(E0)) : FreeVariable(Operands(E0)[i])
                  THEN Raise("NameError")
                  ELSE Raise("TypeError")

\* C11 witness: an operation on an Integer and a Variable bound to a
\* Function has failed with TypeError.
UnsupportedOperandsWitness ==
    /\ UnsupportedCase /\ FirstRaised /\ error = "TypeError"
    /\ E0.tag = "BinaryOperation"
    /\ E0.lhs.tag = "Variable" /\ ~Unbound(E0.lhs.name)
    /\ OperandValue(E0.lhs).tag = "Function"
    /\ E0.rhs.tag = "Integer"

(***************************************************************************)
(* (\p. v) e: a Function whose body is the Variable v, applied to an       *)
(* atomic value.  The Variable reaches the parameter when it has the       *)
(* parameter's name or is bound to the Variable of that name.              *)
(***************************************************************************)
IsVariableBody(e) ==
    /\ e.tag = "Application" /\ e.target.tag = "Function"
    /\ e.target.body.tag = "Variable"
    /\ is_atomic(e.value, ctx)

Parameter(e) == e.target.argument.name

ReachesParameter(e) ==
    \/ e.target.body.name = Parameter(e)
    \/ /\ ~Unbound(e.target.body.name)
       /\ ctx.bound[e.target.body.name] = Variable(Parameter(e))

CaptureCase ==
    /\ Called /\ ~ctx.eval_step
    /\ IsVariableBody(E0) /\ ReachesParameter(E0) /\ Unbound(Parameter(E0))

\* C12 as stated: a free Variable named x that ends up inside the body of a
\* Function with parameter x is replaced by the argument when the Function is
\* applied: with a bound to x, (\x. a) 1 gives 1.
CapturesFreeVariable == CaptureCase => Outcome = Ret(E0.value)

\* C12 amended: substitution leaves every Variable as it is.  Applying
\* (\x. v) to a value gives what v gives alone; when v reaches the free
\* Variable x (a bound to x, (\x. a) 1) the result is x with force_eval =
\* false and NameError with force_eval = true, never the argument.
FreeVariableKept ==
    /\ (Called /\ IsVariableBody(E0)) =>
          Outcome = IF ctx.eval_step THEN Ret(E0.target.body)
                    ELSE evaluate(E0.target.body, ctx, MaxRecursion - 1)
    /\ CaptureCase =>
          Outcome = IF ctx.force_eval THEN Raise("NameError")
                    ELSE Ret(Variable(Parameter(E0)))

\* C12 witness: with x bound to y, (\y. x) 1 has been evaluated to y.
FreeVariableKeptWitness ==
    /\ CaptureCase /\ Returned
    /\ E0.target.body.name # Parameter(E0)
    /\ E0.value = Integer(1)
    /\ expression = Variable(Parameter(E0))

(***************************************************************************)
(* C13.  Termination of the print loop of execute: with eval_step = false, *)
(* under every eval_ops and force_eval, the loop never sits at an          *)
(* expression that is not atomic and that evaluate returns as it is (from  *)
(* such a state every iteration repeats the same state and the loop never  *)
(* exits), so the loop exits and execute finishes.                         *)
(***************************************************************************)
PrintLoopTerminates == ~ctx.eval_step => ~Stuck

(***************************************************************************)
(* The names of the Arguments of an expression that no Function of the     *)
(* expression with that parameter encloses.                                *)
(***************************************************************************)
RECURSIVE FreeArguments(_)
FreeArguments(e) ==
    CASE e.tag = "Argument" -> {e.name}
      [] e.tag = "Function" -> FreeArguments(e.body) \ {e.argument.name}
      [] e.tag = "Application" -> FreeArguments(e.target) \cup FreeArguments(e.value)
      [] e.tag = "BinaryOperation" -> FreeArguments(e.lhs) \cup FreeArguments(e.rhs)
      [] e.tag = "UnaryOperation" -> FreeArguments(e.argument)
      [] e.tag = "List" ->
           UNION {FreeArguments(e.expressions[i]) : i \in 1..Len(e.expressions)}
      [] OTHER -> {}

(***************************************************************************)
(* C14.  Argument-stack balance on a reused ParseContext: whether the      *)
(* earlier statements parsed or failed, parser.args is empty when the      *)
(* parsing of each statement starts, and a VARIABLE token becomes an       *)
(* Argument only inside a lambda of the same statement that binds its name: *)
(* no parsed expression has an Argument outside such a lambda.             *)
(***************************************************************************)
ArgumentStackBalanced ==
    pc = "parse" =>
        /\ parser.args = <<>>
        /\ \A i \in 1..Len(expressions) : FreeArguments(expressions[i]) = {}

(***************************************************************************)
(* C15.  Closedness: for statements parsed from an empty argument stack    *)
(* and an environment built by such statements, no expression returned by  *)
(* evaluate (the loop variable of execute, and every printed expression)   *)
(* contains an Argument that no Function with that parameter encloses.     *)
(***************************************************************************)
Closedness ==
    /\ FreeArguments(expression) = {}
    /\ \A i \in 1..Len(output) : FreeArguments(output[i].expr) = {}

====
